---- MODULE Spec2Model ----
(***************************************************************************)
(* A model of two parts of the repository:                                 *)
(*   - crates/engine_bibtex/src/c_api/scan.rs: the scan operations over    *)
(*     the shared base buffer and its cursor offsets 1 and 2;              *)
(*   - crates/engine_spx2html/src/font/mod.rs: the feature tag classifier, *)
(*     the substitution and math variant visitors, the two loaders and the *)
(*     ReverseGlyphMap.                                                    *)
(* Each part has its own specification over its own variables; the         *)
(* variables of the other parts stay at their idle values.                 *)
(***************************************************************************)
EXTENDS Integers, Sequences, FiniteSets, TLC

VARIABLES
    buffer,       \* scan.rs: the base buffer (BufTy::Base), 0-based in the code
    last,         \* scan.rs: the `last` argument, fixed along a run
    offset1,      \* scan.rs: buffers.offset(BufTy::Base, 1), scan-start
    offset2,      \* scan.rs: buffers.offset(BufTy::Base, 2), scan-end
    token_value,  \* scan.rs: *token_value of scan_integer
    scan_call,    \* observation: the last scan call, its arguments and result
    tag_call,     \* observation: the last get_tag_variant call and its result
    visit_call,   \* observation: the last visit_glyph call and what it applied
    reverse_gmap, \* font/mod.rs: ReverseGlyphMap.inner of the map being built
    map_history,  \* observation: the (glyph, usv) inserts made so far, in order
    map_call,     \* observation: the last ReverseGlyphMap call and its result
    gsub,         \* font/mod.rs: the LayoutTable (features, lookups) of the font
    math,         \* font/mod.rs: the math::Variants of the font
    calls,        \* observation: the loader calls made on reverse_gmap, in order
    font_maps,    \* the ReverseGlyphMap.inner of each loaded font
    phase,        \* the phase of each font's map: "loading" or "frozen"
    frozen_maps,  \* observation: each font's map as its load phase ended
    reads         \* observation: the last query_usv of each reader

scanVars == <<buffer, last, offset1, offset2, token_value, scan_call>>

tagVars == <<tag_call>>

visitVars == <<visit_call>>

mapVars == <<reverse_gmap, map_history, map_call>>

loadVars == <<gsub, math, calls>>

lifeVars == <<font_maps, phase, frozen_maps, reads>>

vars == <<scanVars, tagVars, visitVars, mapVars, loadVars, lifeVars>>

(***************************************************************************)
(* Idle values of each part's variables                                    *)
(***************************************************************************)

TagIdle == tag_call = [op |-> "none"]

VisitIdle == visit_call = [op |-> "none"]

MapIdle ==
    /\ reverse_gmap = <<>>
    /\ map_history = <<>>
    /\ map_call = [op |-> "none"]

LoadIdle ==
    /\ gsub = [features |-> <<>>, lookups |-> <<>>]
    /\ math = [horizontal_constructions |-> <<>>,
               vertical_constructions |-> <<>>]
    /\ calls = <<>>

LifeIdle ==
    /\ font_maps = <<>>
    /\ phase = <<>>
    /\ frozen_maps = <<>>
    /\ reads = <<>>

(***************************************************************************)
(* Part 1. The bibliography scanner (scan.rs)                              *)
(***************************************************************************)

\* The largest `last` of a run.
MaxLast == 2

\* The buffer holds two bytes more than the largest `last`: scan_integer reads
\* the byte at scan-end and, after a sign, the byte after it.
BufSize == MaxLast + 2

\* The bytes a buffer is drawn from: ' ', '-', '1', 'a'.
Bytes == {32, 45, 49, 97}

\* The characters the scan1/scan2/scan3/scan_identifier arguments are drawn from.
CharArgs == {45, 97}

ArgPairs == {<<45, 97>>, <<97, 97>>}

ArgTriples == {<<45, 97, 49>>, <<97, 97, 97>>}

NoClass == "NoClass"

LexClassOf(char) ==
    CASE char \in {9, 13, 32} -> "Whitespace"
      [] char \in 48..57 -> "Numeric"
      [] char \in (65..90) \cup (97..122) -> "Alpha"
      [] char \in {45, 126} -> "SepChar"
      [] char \in (0..31) \cup {127} -> "Illegal"
      [] OTHER -> "Other"

IdClassOf(char) ==
    IF \/ LexClassOf(char) \in {"Whitespace", "Illegal"}
       \/ char \in {34, 35, 37, 39, 40, 41, 44, 61, 123, 125}
    THEN "IllegalIdChar" ELSE "LegalIdChar"

\* buffers.at(BufTy::Base, idx): the code's index is 0-based.
At(buf, idx) == buf[idx + 1]

\* An index the buffer holds.
InBuf(idx) == idx >= 0 /\ idx < BufSize

Scan_new(chars) == [chars |-> chars, not_class |-> NoClass, class |-> NoClass]

Scan_not_class(scan, class) == [scan EXCEPT !.not_class = class]

Scan_class(scan, class) == [scan EXCEPT !.class = class]

InSeq(x, s) == \E i \in 1..Len(s) : s[i] = x

match_char(scan, char) ==
    \/ (scan.not_class # NoClass /\ LexClassOf(char) # scan.not_class)
    \/ (scan.class # NoClass /\ LexClassOf(char) = scan.class)
    \/ InSeq(char, scan.chars)

\* The loop of scan_till and scan_till_nonempty: the index it ends at.
RECURSIVE ScanLoop(_, _, _, _)
ScanLoop(scan, buf, idx, lst) ==
    IF idx < lst /\ ~match_char(scan, At(buf, idx))
    THEN ScanLoop(scan, buf, idx + 1, lst)
    ELSE idx

\* scan_till with the loop bound off by one: the byte at `last` is examined too.
scan_till_through_last(scan, buf, off2, lst) ==
    LET idx == ScanLoop(scan, buf, off2, lst + 1)
    IN  [o1 |-> off2, o2 |-> idx, ret |-> (idx < lst + 1)]

\* Scan::scan_till: the new offsets 1 and 2 and the result.
scan_till(scan, buf, off2, lst) ==
    LET idx == ScanLoop(scan, buf, off2, lst)
    IN  [o1 |-> off2, o2 |-> idx, ret |-> (idx < lst)]

\* Scan::scan_till_nonempty.
scan_till_nonempty(scan, buf, off2, lst) ==
    LET start == off2
        idx == ScanLoop(scan, buf, start, lst)
    IN  [o1 |-> start, o2 |-> idx, ret |-> (idx - start # 0)]

\* scan_identifier: offset 2 is written only when the first byte is not numeric.
scan_identifier_res(char1, char2, char3, buf, off2, lst) ==
    LET start == off2
        first == At(buf, start)
        RECURSIVE IdLoop(_)
        IdLoop(i) == IF i < lst /\ IdClassOf(At(buf, i)) = "LegalIdChar"
                     THEN IdLoop(i + 1) ELSE i
        idx == IF LexClassOf(first) # "Numeric" THEN IdLoop(start) ELSE start
        char == At(buf, idx)
    IN  [o1 |-> start,
         o2 |-> IF LexClassOf(first) # "Numeric" THEN idx ELSE off2,
         ret |-> IF idx - start = 0 THEN "IdNull"
                 ELSE IF LexClassOf(char) = "Whitespace" \/ idx = lst
                      THEN "WhitespaceAdjacent"
                 ELSE IF char = char1 \/ char = char2 \/ char = char3
                      THEN "SpecifiedCharAdjacent"
                 ELSE "OtherCharAdjacent"]

\* The digit loop of scan_integer: the index it ends at and the value read.
RECURSIVE IntLoop(_, _, _, _)
IntLoop(buf, idx, lst, value) ==
    IF idx < lst /\ LexClassOf(At(buf, idx)) = "Numeric"
    THEN IntLoop(buf, idx + 1, lst, value * 10 + (At(buf, idx) - 48))
    ELSE [idx |-> idx, value |-> value]

\* scan_integer: the sign is consumed without comparing the index to `last`.
scan_integer_res(buf, off2, lst) ==
    LET start == off2
        sign == At(buf, start) = 45
        idx0 == IF sign THEN start + 1 ELSE start
        r == IntLoop(buf, idx0, lst, 0)
    IN  [o1 |-> start, o2 |-> r.idx,
         value |-> IF sign THEN r.value * (-1) ELSE r.value,
         ret |-> (r.idx - start # (IF sign THEN 1 ELSE 0))]

\* One scan call: the cursors move, the buffer stays, the call is recorded.
Apply(op, chars, r) ==
    /\ offset1' = r.o1
    /\ offset2' = r.o2
    /\ scan_call' = [op |-> op, chars |-> chars, p |-> offset2,
                     buf |-> buffer, ret |-> r.ret]
    /\ UNCHANGED <<buffer, last>>
    /\ UNCHANGED <<tagVars, visitVars, mapVars, loadVars, lifeVars>>

scan1 ==
    \E char1 \in CharArgs :
        /\ Apply("scan1", <<char1>>,
                 scan_till(Scan_new(<<char1>>), buffer, offset2, last))
        /\ UNCHANGED token_value

scan1_white ==
    \E char1 \in CharArgs :
        /\ Apply("scan1_white", <<char1>>,
                 scan_till(Scan_class(Scan_new(<<char1>>), "Whitespace"),
                           buffer, offset2, last))
        /\ UNCHANGED token_value

scan2 ==
    \E a \in ArgPairs : LET char1 == a[1] char2 == a[2] IN
        /\ Apply("scan2", <<char1, char2>>,
                 scan_till(Scan_new(<<char1, char2>>), buffer, offset2, last))
        /\ UNCHANGED token_value

scan2_white ==
    \E a \in ArgPairs : LET char1 == a[1] char2 == a[2] IN
        /\ Apply("scan2_white", <<char1, char2>>,
                 scan_till(Scan_class(Scan_new(<<char1, char2>>), "Whitespace"),
                           buffer, offset2, last))
        /\ UNCHANGED token_value

scan3 ==
    \E a \in ArgTriples : LET char1 == a[1] char2 == a[2] char3 == a[3] IN
        /\ Apply("scan3", <<char1, char2, char3>>,
                 scan_till(Scan_new(<<char1, char2, char3>>),
                           buffer, offset2, last))
        /\ UNCHANGED token_value

scan_alpha ==
    /\ Apply("scan_alpha", <<>>,
             scan_till_nonempty(Scan_not_class(Scan_new(<<>>), "Alpha"),
                                buffer, offset2, last))
    /\ UNCHANGED token_value

scan_white_space ==
    /\ Apply("scan_white_space", <<>>,
             scan_till(Scan_not_class(Scan_new(<<>>), "Whitespace"),
                       buffer, offset2, last))
    /\ UNCHANGED token_value

scan_identifier ==
    \E a \in ArgTriples : LET char1 == a[1] char2 == a[2] char3 == a[3] IN
        /\ InBuf(offset2)
        /\ Apply("scan_identifier", <<char1, char2, char3>>,
                 scan_identifier_res(char1, char2, char3, buffer, offset2, last))
        /\ UNCHANGED token_value

scan_nonneg_integer ==
    /\ Apply("scan_nonneg_integer", <<>>,
             scan_till_nonempty(Scan_not_class(Scan_new(<<>>), "Numeric"),
                                buffer, offset2, last))
    /\ UNCHANGED token_value

scan_integer ==
    /\ InBuf(offset2)
    /\ At(buffer, offset2) = 45 => InBuf(offset2 + 1)
    /\ LET r == scan_integer_res(buffer, offset2, last)
       IN  /\ Apply("scan_integer", <<>>, r)
           /\ token_value' = r.value

ScanIdle ==
    /\ buffer = <<>>
    /\ last = 0
    /\ offset1 = 0
    /\ offset2 = 0
    /\ token_value = 0
    /\ scan_call = [op |-> "none"]

\* A line of `last` bytes in a buffer of BufSize bytes; the bytes from `last` on
\* are whatever an earlier, longer line left there. Scanning starts at any
\* position of the line.
InitScan ==
    /\ buffer \in [1..BufSize -> Bytes]
    /\ last \in 0..MaxLast
    /\ offset1 = 0
    /\ offset2 \in 0..last
    /\ token_value = 0
    /\ scan_call = [op |-> "none"]
    /\ TagIdle
    /\ VisitIdle
    /\ MapIdle
    /\ LoadIdle
    /\ LifeIdle

NextScan ==
    \/ scan1
    \/ scan1_white
    \/ scan2
    \/ scan2_white
    \/ scan3
    \/ scan_alpha
    \/ scan_white_space
    \/ scan_identifier
    \/ scan_nonneg_integer
    \/ scan_integer

SpecScan == InitScan /\ [][NextScan]_vars

ScanTillOps ==
    {"scan1", "scan2", "scan3", "scan1_white", "scan2_white", "scan_white_space"}

IsWhite(byte) == LexClassOf(byte) = "Whitespace"

\* The stop condition of a scan-until call, as the caller states it.
Stops(call, byte) ==
    CASE call.op \in {"scan1", "scan2", "scan3"} -> InSeq(byte, call.chars)
      [] call.op \in {"scan1_white", "scan2_white"} ->
            InSeq(byte, call.chars) \/ IsWhite(byte)
      [] OTHER -> ~IsWhite(byte)

\* The indexes from the prior scan-end up to `last` whose byte stops the call.
StopIndexes(call) ==
    {i \in call.p..(last - 1) : Stops(call, At(call.buf, i))}

SetMin(S) == CHOOSE x \in S : \A y \in S : x <= y

\* C9: after a scan-until call (scan1, scan2, scan3, scan1_white, scan2_white,
\* scan_white_space) made with scan-end p <= last, scan-start is p, scan-end is
\* the smallest index in p..last-1 whose byte satisfies the stop condition, or
\* last when there is none, the buffer is unchanged, and the result is true
\* exactly when there is such an index.
C9_ScanTillStopsAtFirstMatch ==
    (scan_call.op \in ScanTillOps /\ scan_call.p <= last) =>
        /\ offset1 = scan_call.p
        /\ offset2 = IF StopIndexes(scan_call) = {} THEN last
                     ELSE SetMin(StopIndexes(scan_call))
        /\ buffer = scan_call.buf
        /\ scan_call.ret = (StopIndexes(scan_call) # {})

\* C9 witness: scan2_white passed over a byte and stopped on a later
\* whitespace byte inside the line.
C9_Witness ==
    /\ scan_call.op = "scan2_white"
    /\ scan_call.ret = TRUE
    /\ scan_call.p < offset2
    /\ offset2 < last
    /\ IsWhite(At(buffer, offset2))

\* C10: after every scan operation called with scan-end p <= last, scan-start
\* is p and the new scan-end e satisfies p <= e <= last.
C10_CursorsStayInLine ==
    (scan_call.op # "none" /\ scan_call.p <= last) =>
        /\ offset1 = scan_call.p
        /\ scan_call.p <= offset2
        /\ offset2 <= last

\* What C10 leaves when scan_integer's sign step at p = last is set aside:
\* every other call keeps the cursors inside the line.
CursorsStayInLineButSignAtLast ==
    (/\ scan_call.op # "none"
     /\ scan_call.p <= last
     /\ ~(/\ scan_call.op = "scan_integer"
          /\ scan_call.p = last
          /\ At(scan_call.buf, scan_call.p) = 45)) =>
        /\ offset1 = scan_call.p
        /\ scan_call.p <= offset2
        /\ offset2 <= last

(***************************************************************************)
(* Part 2. The feature tag classifier (font/mod.rs, get_tag_variant)       *)
(***************************************************************************)

\* Option<T>: None is the empty sequence, Some(x) the sequence of x alone.
None == <<>>

Some(x) == <<x>>

\* enum Variant.
Direct == [kind |-> "Direct"]

Ssty == [kind |-> "Ssty"]

Math == [kind |-> "Math"]

CharacterVariant(n) == [kind |-> "CharacterVariant", n |-> n]

StylisticSet(n) == [kind |-> "StylisticSet", n |-> n]

\* The characters a tag is drawn from; a tag is four of them.
TagChars == {"s", "t", "y", "c", "v", "x", "0", "1", "2", "9", "+", "-"}

Tags == [1..4 -> TagChars]

DigitChars == <<"0", "1", "2", "3", "4", "5", "6", "7", "8", "9">>

IsDigit(ch) == InSeq(ch, DigitChars)

DigitValue(ch) == (CHOOSE i \in 1..10 : DigitChars[i] = ch) - 1

\* str::starts_with.
starts_with(str, prefix) ==
    /\ Len(str) >= Len(prefix)
    /\ SubSeq(str, 1, Len(prefix)) = prefix

\* The digits of str::parse::<u16>, folded left to right; None on a character
\* that is no decimal digit and on a value a u16 cannot hold.
RECURSIVE ParseDigits(_, _)
ParseDigits(digits, acc) ==
    IF digits = <<>> THEN Some(acc)
    ELSE IF ~IsDigit(Head(digits)) THEN None
    ELSE LET next == acc * 10 + DigitValue(Head(digits))
         IN  IF next > 65535 THEN None ELSE ParseDigits(Tail(digits), next)

\* str::parse::<u16>: an empty string and a lone sign are errors, one leading
\* '+' is skipped, and '-' is no digit of an unsigned type.
parse_u16(src) ==
    IF src = <<>> THEN None
    ELSE IF Len(src) = 1 /\ Head(src) \in {"+", "-"} THEN None
    ELSE IF Head(src) = "+" THEN ParseDigits(Tail(src), 0)
    ELSE ParseDigits(src, 0)

\* Option::filter.
Option_filter(opt, lo, hi) ==
    IF opt # None /\ opt[1] >= lo /\ opt[1] <= hi THEN opt ELSE None

\* get_tag_variant: tag.to_string() is the tag's four characters.
get_tag_variant(tag) ==
    IF tag = <<"s", "s", "t", "y">> THEN Some(Ssty)
    ELSE IF starts_with(tag, <<"c", "v">>)
         THEN LET n == Option_filter(parse_u16(SubSeq(tag, 3, Len(tag))), 1, 99)
              IN  IF n = None THEN None ELSE Some(CharacterVariant(n[1]))
    ELSE IF starts_with(tag, <<"s", "s">>)
         THEN LET n == Option_filter(parse_u16(SubSeq(tag, 3, Len(tag))), 1, 20)
              IN  IF n = None THEN None ELSE Some(StylisticSet(n[1]))
    ELSE None

\* One call of get_tag_variant on the tag the font presents.
Classify ==
    /\ tag_call.op = "pending"
    /\ tag_call' = [op |-> "get_tag_variant", tag |-> tag_call.tag,
                    res |-> get_tag_variant(tag_call.tag)]
    /\ UNCHANGED <<scanVars, visitVars, mapVars, loadVars, lifeVars>>

InitTag ==
    /\ \E tag \in Tags : tag_call = [op |-> "pending", tag |-> tag]
    /\ ScanIdle
    /\ VisitIdle
    /\ MapIdle
    /\ LoadIdle
    /\ LifeIdle

NextTag == Classify

SpecTag == InitTag /\ [][NextTag]_vars

\* The classification the tag convention gives: "ssty", or "cv"/"ss" followed
\* by two decimal digits whose value lies in the feature's range.
ConventionVariant(tag) ==
    IF tag = <<"s", "s", "t", "y">> THEN Some(Ssty)
    ELSE IF IsDigit(tag[3]) /\ IsDigit(tag[4])
         THEN LET n == 10 * DigitValue(tag[3]) + DigitValue(tag[4])
              IN  IF tag[1] = "c" /\ tag[2] = "v" /\ n >= 1 /\ n <= 99
                  THEN Some(CharacterVariant(n))
                  ELSE IF tag[1] = "s" /\ tag[2] = "s" /\ n >= 1 /\ n <= 20
                  THEN Some(StylisticSet(n))
                  ELSE None
    ELSE None

\* C1: get_tag_variant returns Ssty exactly for "ssty", CharacterVariant(n)
\* exactly for "cv" followed by two decimal digits of value 1 <= n <= 99,
\* StylisticSet(n) exactly for "ss" followed by two decimal digits of value
\* 1 <= n <= 20, and None for every other tag, a sign followed by a digit
\* included.
C1_TagClassification ==
    tag_call.op = "get_tag_variant" =>
        tag_call.res = ConventionVariant(tag_call.tag)

\* What C1 leaves when the suffixes that start with '+' are set aside.
TagClassificationButPlus ==
    (tag_call.op = "get_tag_variant" /\ tag_call.tag[3] # "+") =>
        tag_call.res = ConventionVariant(tag_call.tag)

(***************************************************************************)
(* Part 3. The substitution and math variant visitors (font/mod.rs)        *)
(***************************************************************************)

\* Some(()).
Unit == "()"

\* A saturating cast, as a float-to-integer `as` would do.
AsU16_saturating(x) == IF x < 0 THEN 0 ELSE IF x > 65535 THEN 65535 ELSE x

\* `as u16` of an i32: the low 16 bits.
AsU16(x) == x % 65536

\* Whether an i32 holds x: an i32 addition outside this range traps.
InI32(x) == x >= -2147483647 - 1 /\ x <= 2147483647

\* Coverage::get: the coverage index of a covered glyph. A coverage table is
\* the sequence of the glyphs it covers; the index is the position, from 0.
Coverage_get(coverage, glyph) ==
    IF InSeq(glyph, coverage)
    THEN Some((CHOOSE i \in 1..Len(coverage) : coverage[i] = glyph) - 1)
    ELSE None

\* LazyArray16::get and LookupList::get: None outside the array.
Array_get(arr, index) ==
    IF index >= 0 /\ index < Len(arr) THEN Some(arr[index + 1]) ELSE None

\* The substitution subtables.
SingleFormat1(coverage, delta) ==
    [kind |-> "Single", format |-> 1, coverage |-> coverage, delta |-> delta]

SingleFormat2(coverage, substitutes) ==
    [kind |-> "Single", format |-> 2, coverage |-> coverage,
     substitutes |-> substitutes]

Alternate(coverage, alternate_sets) ==
    [kind |-> "Alternate", coverage |-> coverage,
     alternate_sets |-> alternate_sets]

OtherSubtable == [kind |-> "Other"]

\* A visit: the glyphs handed to f.apply, in order, the Option<()> returned,
\* and whether an arithmetic overflow trapped on the way.
Visited(applied, ret) == [applied |-> applied, ret |-> ret, trap |-> FALSE]

\* impl VariantGlyphVisitor for AlternateSubstitution.
AlternateSubstitution_visit_glyph(t, dglyph) ==
    LET index == Coverage_get(t.coverage, dglyph)
        set == IF index = None THEN None
               ELSE Array_get(t.alternate_sets, index[1])
    IN  Visited(IF set = None THEN <<>> ELSE set[1], Some(Unit))

\* impl VariantGlyphVisitor for SingleSubstitution.
SingleSubstitution_visit_glyph(t, dglyph) ==
    IF t.format = 1
    THEN IF Coverage_get(t.coverage, dglyph) # None
         THEN [applied |-> <<AsU16(dglyph + t.delta)>>,
               ret |-> Some(Unit),
               trap |-> ~InI32(dglyph + t.delta)]
         ELSE Visited(<<>>, Some(Unit))
    ELSE LET index == Coverage_get(t.coverage, dglyph)
         IN  IF index = None THEN Visited(<<>>, Some(Unit))
             ELSE LET g == Array_get(t.substitutes, index[1])
                  IN  IF g = None THEN Visited(<<>>, None)
                      ELSE Visited(<<g[1]>>, Some(Unit))

\* GlyphConstructions::get(glyph).map(|gc| gc.variants): the constructions are
\* a function from the glyphs that have one to their variant glyph lists.
Constructions_get(constructions, glyph) ==
    IF glyph \in DOMAIN constructions THEN Some(constructions[glyph]) ELSE None

\* impl VariantGlyphVisitor for ttf_parser::math::Variants.
Variants_visit_glyph(variants, dglyph) ==
    LET hvars == Constructions_get(variants.horizontal_constructions, dglyph)
        vvars == Constructions_get(variants.vertical_constructions, dglyph)
    IN  Visited((IF hvars = None THEN <<>> ELSE hvars[1])
                \o (IF vvars = None THEN <<>> ELSE vvars[1]), Some(Unit))

\* One subtable of a lookup: the result of the subtable's visit is dropped.
Subtable_visit_glyph(subtable, dglyph) ==
    CASE subtable.kind = "Single" ->
            SingleSubstitution_visit_glyph(subtable, dglyph).applied
      [] subtable.kind = "Alternate" ->
            AlternateSubstitution_visit_glyph(subtable, dglyph).applied
      [] OTHER -> <<>>

\* A lookup that gives up at the first subtable whose visit returns None, as
\* `t.visit_glyph(dglyph, f)?` would.
Lookup_visit_glyph_propagating(lookup, dglyph) ==
    LET RECURSIVE Walk(_, _)
        Walk(i, applied) ==
            IF i > Len(lookup.subtables) THEN Visited(applied, Some(Unit))
            ELSE LET t == lookup.subtables[i]
                     r == IF t.kind = "Single"
                          THEN SingleSubstitution_visit_glyph(t, dglyph)
                          ELSE IF t.kind = "Alternate"
                          THEN AlternateSubstitution_visit_glyph(t, dglyph)
                          ELSE Visited(<<>>, Some(Unit))
                 IN  IF r.ret = None THEN Visited(applied \o r.applied, None)
                     ELSE Walk(i + 1, applied \o r.applied)
    IN  Walk(1, <<>>)

\* impl VariantGlyphVisitor for Lookup: every subtable is visited in order.
Lookup_visit_glyph(lookup, dglyph) ==
    LET RECURSIVE Walk(_, _)
        Walk(i, applied) ==
            IF i > Len(lookup.subtables) THEN applied
            ELSE Walk(i + 1, applied
                             \o Subtable_visit_glyph(lookup.subtables[i], dglyph))
    IN  Visited(Walk(1, <<>>), Some(Unit))

\* A visit_glyph call on the pending table and glyph.
VisitDone(op, res) ==
    /\ visit_call' = [op |-> op, table |-> visit_call.table,
                      dglyph |-> visit_call.dglyph, res |-> res]
    /\ UNCHANGED <<scanVars, tagVars, mapVars, loadVars, lifeVars>>

\* The glyph ids and deltas the visits are drawn from: the ends and the middle
\* of the 16-bit range and small values.
VisitGlyphs == {0, 5, 6, 7, 8, 32767, 32768, 65535}

VisitDeltas == {-32768, -32767, -6, -1, 0, 1, 3, 32767}

VisitCoverages == {<<5>>, <<0, 5, 32768, 65535>>}

VisitSingles ==
    {SingleFormat1(c, d) : c \in VisitCoverages, d \in VisitDeltas}
    \cup {SingleFormat2(<<5, 6>>, <<12>>), SingleFormat2(<<5>>, <<>>)}

VisitAlternates ==
    {Alternate(<<5>>, << <<20, 30>> >>), Alternate(<<6, 5>>, << <<20>> >>)}

VisitVariants ==
    {[horizontal_constructions |-> (7 :> <<9, 10>>),
      vertical_constructions |-> (7 :> <<11>>)],
     [horizontal_constructions |-> (5 :> <<9, 9>>),
      vertical_constructions |-> <<>>]}

VisitLookups ==
    {[subtables |-> <<SingleFormat2(<<5, 6>>, <<12>>),
                      Alternate(<<6, 5>>, << <<20, 30>> >>)>>],
     [subtables |-> <<OtherSubtable, SingleFormat1(<<5>>, 3)>>]}

VisitSingle ==
    /\ visit_call.op = "pending"
    /\ visit_call.table \in VisitSingles
    /\ VisitDone("SingleSubstitution",
                 SingleSubstitution_visit_glyph(visit_call.table, visit_call.dglyph))

VisitAlternate ==
    /\ visit_call.op = "pending"
    /\ visit_call.table \in VisitAlternates
    /\ VisitDone("AlternateSubstitution",
                 AlternateSubstitution_visit_glyph(visit_call.table, visit_call.dglyph))

VisitVariant ==
    /\ visit_call.op = "pending"
    /\ visit_call.table \in VisitVariants
    /\ VisitDone("Variants",
                 Variants_visit_glyph(visit_call.table, visit_call.dglyph))

VisitLookup ==
    /\ visit_call.op = "pending"
    /\ visit_call.table \in VisitLookups
    /\ VisitDone("Lookup",
                 Lookup_visit_glyph(visit_call.table, visit_call.dglyph))

InitVisit ==
    /\ \E t \in VisitSingles \cup VisitAlternates \cup VisitVariants
                 \cup VisitLookups,
          g \in VisitGlyphs :
           visit_call = [op |-> "pending", table |-> t, dglyph |-> g]
    /\ ScanIdle
    /\ TagIdle
    /\ MapIdle
    /\ LoadIdle
    /\ LifeIdle

NextVisit ==
    \/ VisitSingle
    \/ VisitAlternate
    \/ VisitVariant
    \/ VisitLookup

SpecVisit == InitVisit /\ [][NextVisit]_vars

\* A visit of a single substitution by delta.
IsDeltaVisit ==
    /\ visit_call.op = "SingleSubstitution"
    /\ visit_call.table.format = 1

\* C5: visiting g on a single substitution by delta d yields exactly one glyph,
\* the 16-bit value congruent to g + d modulo 2^16, when g is covered, and
\* nothing when it is not; the addition never traps.
C5_DeltaWrapsWithin16Bits ==
    IsDeltaVisit =>
        LET g == visit_call.dglyph
            d == visit_call.table.delta
            out == visit_call.res.applied
        IN  /\ ~visit_call.res.trap
            /\ visit_call.res.ret = Some(Unit)
            /\ IF InSeq(g, visit_call.table.coverage)
               THEN /\ Len(out) = 1
                    /\ out[1] >= 0
                    /\ out[1] < 2^16
                    /\ \E k \in {-1, 0, 1} : out[1] = g + d + k * 2^16
               ELSE out = <<>>
            /\ (g = 5 /\ d = 3 /\ visit_call.table.coverage = <<5>>)
                   => out = <<8>>
            /\ (g = 8 /\ d = 3 /\ visit_call.table.coverage = <<5>>)
                   => out = <<>>

\* C5 witness: a covered glyph whose sum leaves the 16-bit range and wraps.
C5_Witness ==
    /\ IsDeltaVisit
    /\ visit_call.dglyph = 65535
    /\ visit_call.table.delta = 3
    /\ visit_call.res.applied = <<2>>

(***************************************************************************)
(* Part 4. ReverseGlyphMap (font/mod.rs)                                   *)
(***************************************************************************)

\* The largest number of inserts of a run.
MaxInserts == 3

\* ReverseGlyphMap::new: an empty map. `inner` is a function from the glyph
\* ids it holds to their (char, Variant).
ReverseGlyphMap_new == <<>>

\* ReverseGlyphMap::query_usv.
ReverseGlyphMap_query_usv(inner, glyph) ==
    IF glyph \in DOMAIN inner THEN Some(inner[glyph]) ELSE None

\* An insert that keeps the value a glyph already has, as
\* `entry(glyph).or_insert(usv)` would.
ReverseGlyphMap_insert_keep_first(inner, usv, glyph) ==
    [inner |-> [g \in DOMAIN inner \cup {glyph} |->
                    IF g \in DOMAIN inner THEN inner[g] ELSE usv],
     ret |-> ReverseGlyphMap_query_usv(inner, glyph)]

\* ReverseGlyphMap::insert: the new map and the value returned.
ReverseGlyphMap_insert(inner, usv, glyph) ==
    [inner |-> [g \in DOMAIN inner \cup {glyph} |->
                    IF g = glyph THEN usv ELSE inner[g]],
     ret |-> ReverseGlyphMap_query_usv(inner, glyph)]

\* ReverseGlyphMap::len.
ReverseGlyphMap_len(inner) == Cardinality(DOMAIN inner)

MapGlyphs == {20, 30}

MapUsvs == {<<"a", Ssty>>, <<"b", Math>>}

MapInsert ==
    \E usv \in MapUsvs, glyph \in MapGlyphs :
        /\ Len(map_history) < MaxInserts
        /\ LET r == ReverseGlyphMap_insert(reverse_gmap, usv, glyph)
           IN  /\ reverse_gmap' = r.inner
               /\ map_call' = [op |-> "insert", glyph |-> glyph, usv |-> usv,
                               ret |-> r.ret, before |-> reverse_gmap]
        /\ map_history' = Append(map_history, <<glyph, usv>>)
        /\ UNCHANGED <<scanVars, tagVars, visitVars, loadVars, lifeVars>>

MapQuery ==
    \E glyph \in MapGlyphs :
        /\ map_call' = [op |-> "query_usv", glyph |-> glyph,
                        ret |-> ReverseGlyphMap_query_usv(reverse_gmap, glyph),
                        before |-> reverse_gmap]
        /\ UNCHANGED <<reverse_gmap, map_history>>
        /\ UNCHANGED <<scanVars, tagVars, visitVars, loadVars, lifeVars>>

MapLen ==
    /\ map_call' = [op |-> "len", ret |-> ReverseGlyphMap_len(reverse_gmap),
                    before |-> reverse_gmap]
    /\ UNCHANGED <<reverse_gmap, map_history>>
    /\ UNCHANGED <<scanVars, tagVars, visitVars, loadVars, lifeVars>>

InitMap ==
    /\ reverse_gmap = ReverseGlyphMap_new
    /\ map_history = <<>>
    /\ map_call = [op |-> "none"]
    /\ ScanIdle
    /\ TagIdle
    /\ VisitIdle
    /\ LoadIdle
    /\ LifeIdle

NextMap ==
    \/ MapInsert
    \/ MapQuery
    \/ MapLen

SpecMap == InitMap /\ [][NextMap]_vars

\* The usv of the most recent insert for a glyph in a history, if any.
RECURSIVE LastInserted(_, _)
LastInserted(history, glyph) ==
    IF history = <<>> THEN None
    ELSE IF history[Len(history)][1] = glyph
         THEN Some(history[Len(history)][2])
         ELSE LastInserted(SubSeq(history, 1, Len(history) - 1), glyph)

InsertedGlyphs(history) == {history[i][1] : i \in 1..Len(history)}

\* C6: query_usv(g) is the usv of the most recent insert for g, or None; insert
\* returns the value stored before it; len is the number of distinct glyph ids
\* inserted and never decreases; query_usv and len change nothing.
C6_MapIsLastInsertPerGlyph ==
    /\ \A g \in MapGlyphs :
           ReverseGlyphMap_query_usv(reverse_gmap, g)
               = LastInserted(map_history, g)
    /\ ReverseGlyphMap_len(reverse_gmap)
           = Cardinality(InsertedGlyphs(map_history))
    /\ map_history = <<>> => ReverseGlyphMap_len(reverse_gmap) = 0
    /\ map_call.op = "query_usv" =>
           /\ map_call.ret = LastInserted(map_history, map_call.glyph)
           /\ reverse_gmap = map_call.before
    /\ map_call.op = "len" =>
           /\ map_call.ret = Cardinality(InsertedGlyphs(map_history))
           /\ reverse_gmap = map_call.before
    /\ map_call.op = "insert" =>
           /\ map_call.ret
                  = LastInserted(SubSeq(map_history, 1, Len(map_history) - 1),
                                 map_call.glyph)
           /\ ReverseGlyphMap_len(reverse_gmap)
                  >= ReverseGlyphMap_len(map_call.before)
           /\ \A g \in DOMAIN map_call.before : g \in DOMAIN reverse_gmap

\* C6 witness: 20 -> ('a', Ssty), then 20 -> ('b', Math): the second insert
\* returned the first value and a query now gives ('b', Math).
C6_Witness ==
    /\ map_history = << <<20, <<"a", Ssty>> >>, <<20, <<"b", Math>> >> >>
    /\ map_call.op = "query_usv"
    /\ map_call.glyph = 20
    /\ map_call.ret = Some(<<"b", Math>>)
    /\ ReverseGlyphMap_len(reverse_gmap) = 1

(***************************************************************************)
(* Part 5. The loaders (font/mod.rs, load_gsub and load_math_variants)     *)
(***************************************************************************)

\* The largest number of features of a font.
MaxFeatures == 2

\* The largest number of loader calls of a run.
MaxCalls == 2

\* The closure handed to visit_glyph: every applied glyph is inserted with the
\* same usv, in the order applied.
RECURSIVE InsertAll(_, _, _)
InsertAll(inner, usv, glyphs) ==
    IF glyphs = <<>> THEN inner
    ELSE InsertAll(ReverseGlyphMap_insert(inner, usv, Head(glyphs)).inner,
                   usv, Tail(glyphs))

\* A feature loop that gives an unclassified tag the variant Direct instead
\* of skipping the feature.
load_gsub_feature_no_skip(inner, layout, c, dglyph, feat) ==
    LET tag_variant == IF get_tag_variant(feat.tag) = None THEN Some(Direct)
                       ELSE get_tag_variant(feat.tag)
        RECURSIVE Lookups(_, _)
        Lookups(k, m) ==
            IF k > Len(feat.lookup_indices) THEN m
            ELSE LET lookup == Array_get(layout.lookups, feat.lookup_indices[k])
                 IN  IF lookup = None THEN Lookups(k + 1, m)
                     ELSE Lookups(k + 1,
                              InsertAll(m, <<c, tag_variant[1]>>,
                                  Lookup_visit_glyph(lookup[1], dglyph).applied))
    IN  Lookups(1, inner)

\* The body of load_gsub's feature loop for one seed pair and one feature: a
\* feature whose tag is not classified is skipped, a lookup index outside the
\* lookup list is skipped, every glyph a lookup applies is inserted.
load_gsub_feature(inner, layout, c, dglyph, feat) ==
    LET tag_variant == get_tag_variant(feat.tag)
        RECURSIVE Lookups(_, _)
        Lookups(k, m) ==
            IF k > Len(feat.lookup_indices) THEN m
            ELSE LET lookup == Array_get(layout.lookups, feat.lookup_indices[k])
                 IN  IF lookup = None THEN Lookups(k + 1, m)
                     ELSE Lookups(k + 1,
                              InsertAll(m, <<c, tag_variant[1]>>,
                                  Lookup_visit_glyph(lookup[1], dglyph).applied))
    IN  IF tag_variant = None THEN inner ELSE Lookups(1, inner)

\* load_gsub with the loops exchanged: features outermost, seed pairs inside.
load_gsub_features_outermost(inner, layout, dglyphs) ==
    LET RECURSIVE Seeds(_, _, _)
        Seeds(j, i, m) ==
            IF i > Len(dglyphs) THEN m
            ELSE Seeds(j, i + 1,
                       load_gsub_feature(m, layout, dglyphs[i][1],
                                         dglyphs[i][2], layout.features[j]))
        RECURSIVE Features(_, _)
        Features(j, m) ==
            IF j > Len(layout.features) THEN m
            ELSE Features(j + 1, Seeds(j, 1, m))
    IN  [inner |-> Features(1, inner), ret |-> Some(Unit)]

\* load_gsub: for every seed pair, for every feature in the font's order.
load_gsub(inner, layout, dglyphs) ==
    LET RECURSIVE Features(_, _, _)
        Features(i, j, m) ==
            IF j > Len(layout.features) THEN m
            ELSE Features(i, j + 1,
                          load_gsub_feature(m, layout, dglyphs[i][1],
                                            dglyphs[i][2], layout.features[j]))
        RECURSIVE Seeds(_, _)
        Seeds(i, m) ==
            IF i > Len(dglyphs) THEN m
            ELSE Seeds(i + 1, Features(i, 1, m))
    IN  [inner |-> Seeds(1, inner), ret |-> Some(Unit)]

\* load_math_variants: for every seed pair, the variants of its glyph.
load_math_variants(inner, variant, dglyphs) ==
    LET RECURSIVE Seeds(_, _)
        Seeds(i, m) ==
            IF i > Len(dglyphs) THEN m
            ELSE Seeds(i + 1,
                       InsertAll(m, <<dglyphs[i][1], Math>>,
                           Variants_visit_glyph(variant, dglyphs[i][2]).applied))
    IN  [inner |-> Seeds(1, inner), ret |-> Some(Unit)]

\* The lookup list of the fonts: lookup 0 is a substitution by delta; lookup 1
\* a substitution by table in which glyph 6 is covered with no substitute,
\* followed by an alternate substitution; lookup 2 an ignored subtable, an
\* alternate substitution in which glyph 6 is covered with no alternate set,
\* and a substitution by delta that wraps below zero.
PoolLookups ==
    << [subtables |-> <<SingleFormat1(<<5>>, 3)>>],
       [subtables |-> <<SingleFormat2(<<5, 6>>, <<9>>),
                        Alternate(<<6>>, << <<8, 10>> >>)>>],
       [subtables |-> <<OtherSubtable,
                        Alternate(<<5, 6>>, << <<9, 8>> >>),
                        SingleFormat1(<<6>>, -7)>>] >>

\* The features the fonts draw from; lookup index 3 is outside the lookup list.
Feature(tag, lookup_indices) == [tag |-> tag, lookup_indices |-> lookup_indices]

FeaturePool ==
    {Feature(<<"s", "s", "t", "y">>, <<0>>),
     Feature(<<"c", "v", "0", "3">>, <<1>>),
     Feature(<<"c", "v", "0", "3">>, <<3, 2>>),
     Feature(<<"x", "x", "0", "1">>, <<0>>),
     Feature(<<"c", "v", "+", "1">>, <<0>>)}

LayoutTables ==
    {[features |-> fs, lookups |-> PoolLookups] :
        fs \in UNION {[1..n -> FeaturePool] : n \in 0..MaxFeatures}}

MathTables ==
    {[horizontal_constructions |-> (5 :> <<9, 10>>),
      vertical_constructions |-> (5 :> <<11>>) @@ (6 :> <<8>>)]}

\* The batches of seed pairs handed to a loader.
SeedBatches ==
    {<<>>, << <<"a", 5>> >>, << <<"a", 5>>, <<"b", 6>> >>,
     << <<"a", 5>>, <<"b", 5>> >>}

CallLoadGsub ==
    \E dglyphs \in SeedBatches :
        /\ Len(calls) < MaxCalls
        /\ LET r == load_gsub(reverse_gmap, gsub, dglyphs)
           IN  /\ reverse_gmap' = r.inner
               /\ calls' = Append(calls, [op |-> "load_gsub",
                                          dglyphs |-> dglyphs, ret |-> r.ret,
                                          before |-> reverse_gmap])
        /\ UNCHANGED <<gsub, math, map_history, map_call>>
        /\ UNCHANGED <<scanVars, tagVars, visitVars, lifeVars>>

CallLoadMathVariants ==
    \E dglyphs \in SeedBatches :
        /\ Len(calls) < MaxCalls
        /\ LET r == load_math_variants(reverse_gmap, math, dglyphs)
           IN  /\ reverse_gmap' = r.inner
               /\ calls' = Append(calls, [op |-> "load_math_variants",
                                          dglyphs |-> dglyphs, ret |-> r.ret,
                                          before |-> reverse_gmap])
        /\ UNCHANGED <<gsub, math, map_history, map_call>>
        /\ UNCHANGED <<scanVars, tagVars, visitVars, lifeVars>>

InitLoad ==
    /\ gsub \in LayoutTables
    /\ math \in MathTables
    /\ calls = <<>>
    /\ reverse_gmap = ReverseGlyphMap_new
    /\ map_history = <<>>
    /\ map_call = [op |-> "none"]
    /\ ScanIdle
    /\ TagIdle
    /\ VisitIdle
    /\ LifeIdle

NextLoad ==
    \/ CallLoadGsub
    \/ CallLoadMathVariants

SpecLoad == InitLoad /\ [][NextLoad]_vars

\* The last call of the run; reverse_gmap is the map it left.
LastCall == calls[Len(calls)]

\* What a subtable yields for a glyph, read off the table format.
SubtableProduces(t, d, g) ==
    CASE t.kind = "Single" /\ t.format = 1 ->
            InSeq(d, t.coverage) /\ g = (d + t.delta) % 65536
      [] t.kind = "Single" /\ t.format = 2 ->
            \E i \in 1..Len(t.coverage) :
                t.coverage[i] = d /\ i <= Len(t.substitutes)
                                  /\ t.substitutes[i] = g
      [] t.kind = "Alternate" ->
            \E i \in 1..Len(t.coverage) :
                t.coverage[i] = d /\ i <= Len(t.alternate_sets)
                                  /\ InSeq(g, t.alternate_sets[i])
      [] OTHER -> FALSE

\* The k-th lookup index of feature j is in range and one of the lookup's
\* subtables yields g for d.
LookupProduces(layout, j, k, d, g) ==
    LET idx == layout.features[j].lookup_indices[k]
    IN  /\ idx >= 0
        /\ idx < Len(layout.lookups)
        /\ \E n \in 1..Len(layout.lookups[idx + 1].subtables) :
               SubtableProduces(layout.lookups[idx + 1].subtables[n], d, g)

FeatureProduces(layout, j, d, g) ==
    \E k \in 1..Len(layout.features[j].lookup_indices) :
        LookupProduces(layout, j, k, d, g)

MathProduces(variant, d, g) ==
    \/ d \in DOMAIN variant.horizontal_constructions
       /\ InSeq(g, variant.horizontal_constructions[d])
    \/ d \in DOMAIN variant.vertical_constructions
       /\ InSeq(g, variant.vertical_constructions[d])

\* A feature the loader does not skip: get_tag_variant classifies its tag.
Supported(layout, j) == get_tag_variant(layout.features[j].tag) # None

\* The entry g -> usv is accounted for by a call: a seed pair of the call with
\* usv's codepoint reaches g through the math table, with variant Math, or
\* through a lookup of a supported feature, with the variant of its tag.
Justifies(call, g, usv) ==
    \E s \in 1..Len(call.dglyphs) :
        /\ call.dglyphs[s][1] = usv[1]
        /\ IF call.op = "load_math_variants"
           THEN usv[2] = Math /\ MathProduces(math, call.dglyphs[s][2], g)
           ELSE \E j \in 1..Len(gsub.features) :
                    /\ get_tag_variant(gsub.features[j].tag) = Some(usv[2])
                    /\ FeatureProduces(gsub, j, call.dglyphs[s][2], g)

Writers(call, g) ==
    {w \in (1..Len(call.dglyphs)) \X (1..Len(gsub.features)) \X (1..2) :
        /\ Supported(gsub, w[2])
        /\ w[3] <= Len(gsub.features[w[2]].lookup_indices)
        /\ LookupProduces(gsub, w[2], w[3], call.dglyphs[w[1]][2], g)}

\* The usv a writer inserts.
Written(call, w) ==
    <<call.dglyphs[w[1]][1], get_tag_variant(gsub.features[w[2]].tag)[1]>>

\* Table order of (feature, lookup) positions, and load order of writers:
\* seed pairs in batch order first, then table order.
TableOrderLeq(a, b) == a[1] < b[1] \/ (a[1] = b[1] /\ a[2] <= b[2])

LoadOrderLeq(v, w) ==
    v[1] < w[1] \/ (v[1] = w[1] /\ TableOrderLeq(<<v[2], v[3]>>, <<w[2], w[3]>>))

AllGlyphs == {8, 9, 10, 11, 65535}

AfterLoadGsub == calls # <<>> /\ LastCall.op = "load_gsub"

\* C3 as stated: after a load_gsub, a glyph written by two or more supported
\* (feature, lookup) pairs holds a value written for the pair that is last in
\* table order, whatever the seed pairs.
C3_LastInTableOrderWins ==
    AfterLoadGsub =>
        \A g \in AllGlyphs :
            LET W == Writers(LastCall, g)
                pairs == {<<w[2], w[3]>> : w \in W}
            IN  Cardinality(pairs) >= 2 =>
                    \E w \in W :
                        /\ \A q \in pairs : TableOrderLeq(q, <<w[2], w[3]>>)
                        /\ reverse_gmap[g] = Written(LastCall, w)

\* C3 amended: after a load_gsub, a glyph written by some supported (seed,
\* feature, lookup) holds the value of the writer that is last in load order:
\* seed pairs in batch order, then features and lookups in table order. For
\* one seed pair this is the last (feature, lookup) pair in table order.
C3_LastInLoadOrderWins ==
    AfterLoadGsub =>
        \A g \in AllGlyphs :
            LET W == Writers(LastCall, g)
            IN  W # {} =>
                    \E w \in W :
                        /\ \A v \in W : LoadOrderLeq(v, w)
                        /\ g \in DOMAIN reverse_gmap
                        /\ reverse_gmap[g] = Written(LastCall, w)

\* C3 witness: a glyph written for two seed pairs by two features with
\* different variants, where the later seed pair's writer is the earlier
\* feature, and the entry is that writer's.
C3_Witness ==
    /\ AfterLoadGsub
    /\ \E g \in AllGlyphs :
           \E v, w \in Writers(LastCall, g) :
               /\ v[1] < w[1]
               /\ w[2] < v[2]
               /\ Written(LastCall, v) # Written(LastCall, w)
               /\ \A u \in Writers(LastCall, g) : LoadOrderLeq(u, w)
               /\ reverse_gmap[g] = Written(LastCall, w)

\* A layout table with its dangling paths removed: lookup indices outside the
\* lookup list, and the covered glyphs whose coverage index has no substitute
\* or no alternate set.
Prefix(seq, n) == SubSeq(seq, 1, IF n < Len(seq) THEN n ELSE Len(seq))

WithoutDanglingCoverage(t) ==
    CASE t.kind = "Single" /\ t.format = 2 ->
            [t EXCEPT !.coverage = Prefix(t.coverage, Len(t.substitutes))]
      [] t.kind = "Alternate" ->
            [t EXCEPT !.coverage = Prefix(t.coverage, Len(t.alternate_sets))]
      [] OTHER -> t

WithoutDangling(layout) ==
    [features |->
        [j \in 1..Len(layout.features) |->
            [layout.features[j] EXCEPT !.lookup_indices =
                SelectSeq(layout.features[j].lookup_indices,
                          LAMBDA idx : idx < Len(layout.lookups))]],
     lookups |->
        [n \in 1..Len(layout.lookups) |->
            [subtables |->
                [m \in 1..Len(layout.lookups[n].subtables) |->
                    WithoutDanglingCoverage(layout.lookups[n].subtables[m])]]]]

\* The last call made again, on the same map, with another layout table.
LastCallOn(layout) ==
    IF LastCall.op = "load_gsub"
    THEN load_gsub(LastCall.before, layout, LastCall.dglyphs)
    ELSE load_math_variants(LastCall.before, math, LastCall.dglyphs)

\* C4: a dangling lookup index, coverage index without substitute and coverage
\* index without alternate set contribute nothing and stop nothing: a call
\* leaves the map it would leave on the font with the dangling paths removed,
\* and returns Some(()).
C4_DanglingPathsOnlySkipThemselves ==
    calls # <<>> =>
        /\ reverse_gmap = LastCallOn(WithoutDangling(gsub)).inner
        /\ LastCall.ret = Some(Unit)

\* C4 witness: one load_gsub passed all three kinds of dangling path for
\* glyph 6 and still inserted what lies behind them: 10 from the alternate
\* subtable after the substitute-less coverage index, 65535 from the delta
\* subtable after the set-less coverage index in the lookup that follows the
\* out-of-range lookup index.
C4_Witness ==
    /\ Len(calls) = 1
    /\ calls[1].op = "load_gsub"
    /\ gsub # WithoutDangling(gsub)
    /\ {10, 65535} \subseteq DOMAIN reverse_gmap
    /\ reverse_gmap[10][1] = "b"
    /\ reverse_gmap[65535][1] = "b"

\* C7: load_gsub then load_math_variants, and load_math_variants then
\* load_gsub, with the same seed pairs on an empty map, give the same keys and
\* the same value for every glyph only one loader produces; a glyph both
\* produce holds the value of the loader that ran second.
C7_LoaderOrderMattersOnlyOnSharedGlyphs ==
    (/\ Len(calls) = 2
     /\ calls[1].op # calls[2].op
     /\ calls[1].dglyphs = calls[2].dglyphs) =>
        LET dglyphs == calls[1].dglyphs
            onlyGsub == load_gsub(ReverseGlyphMap_new, gsub, dglyphs).inner
            onlyMath == load_math_variants(ReverseGlyphMap_new, math,
                                           dglyphs).inner
            other == IF calls[1].op = "load_gsub"
                     THEN load_gsub(onlyMath, gsub, dglyphs).inner
                     ELSE load_math_variants(onlyGsub, math, dglyphs).inner
            second == IF calls[2].op = "load_gsub" THEN onlyGsub ELSE onlyMath
            first == IF calls[2].op = "load_gsub" THEN onlyMath ELSE onlyGsub
        IN  /\ DOMAIN reverse_gmap = DOMAIN other
            /\ DOMAIN reverse_gmap = DOMAIN onlyGsub \cup DOMAIN onlyMath
            /\ \A g \in DOMAIN reverse_gmap :
                   IF g \in DOMAIN onlyGsub \cap DOMAIN onlyMath
                   THEN reverse_gmap[g] = second[g] /\ other[g] = first[g]
                   ELSE reverse_gmap[g] = other[g]

\* C7 witness: load_gsub then load_math_variants on the same seed pairs, with a
\* glyph only load_gsub produces (65535), one only the math table produces
\* (11), and one both produce (8), which holds its Math value.
C7_Witness ==
    /\ Len(calls) = 2
    /\ calls[1].op = "load_gsub"
    /\ calls[2].op = "load_math_variants"
    /\ calls[1].dglyphs = calls[2].dglyphs
    /\ {8, 11, 65535} \subseteq DOMAIN reverse_gmap
    /\ reverse_gmap[8][2] = Math
    /\ 8 \in DOMAIN calls[2].before
    /\ reverse_gmap[65535][2] = CharacterVariant(3)

(***************************************************************************)
(* Part 6. The life of a font's ReverseGlyphMap: loaded, then frozen and    *)
(* read. The loaders and query_usv are the code's; the order of the phases  *)
(* is the callers'.                                                         *)
(***************************************************************************)

FontIds == {1, 2}

Readers == {"r1", "r2"}

\* The tables of the two fonts.
LifeLayout(f) ==
    IF f = 1
    THEN [features |-> <<Feature(<<"c", "v", "0", "3">>, <<1>>),
                         Feature(<<"s", "s", "t", "y">>, <<0>>)>>,
          lookups |-> PoolLookups]
    ELSE [features |-> <<Feature(<<"c", "v", "0", "3">>, <<3, 2>>)>>,
          lookups |-> PoolLookups]

LifeMath(f) == CHOOSE m \in MathTables : TRUE

LifeBatches == {<< <<"a", 5>> >>, << <<"a", 5>>, <<"b", 6>> >>}

LifeGlyphs == {8, 11}

\* A loader that writes through a map shared by every font, as a static
\* registry would.
StoreLoaded_shared(maps, f, inner) == [h \in DOMAIN maps |-> inner]

\* A loader writes to the map it was handed (reverse_gmap: &mut
\* ReverseGlyphMap) and to nothing else.
StoreLoaded(maps, f, inner) == [maps EXCEPT ![f] = inner]

LifeLoadGsub ==
    \E f \in FontIds, dglyphs \in LifeBatches :
        /\ phase[f] = "loading"
        /\ font_maps' = StoreLoaded(font_maps, f,
                            load_gsub(font_maps[f], LifeLayout(f), dglyphs).inner)
        /\ UNCHANGED <<phase, frozen_maps, reads>>
        /\ UNCHANGED <<scanVars, tagVars, visitVars, mapVars, loadVars>>

LifeLoadMathVariants ==
    \E f \in FontIds, dglyphs \in LifeBatches :
        /\ phase[f] = "loading"
        /\ font_maps' = StoreLoaded(font_maps, f,
                            load_math_variants(font_maps[f], LifeMath(f),
                                               dglyphs).inner)
        /\ UNCHANGED <<phase, frozen_maps, reads>>
        /\ UNCHANGED <<scanVars, tagVars, visitVars, mapVars, loadVars>>

\* The load phase of a font ends.
LifeFreeze ==
    \E f \in FontIds :
        /\ phase[f] = "loading"
        /\ phase' = [phase EXCEPT ![f] = "frozen"]
        /\ frozen_maps' = [frozen_maps EXCEPT ![f] = font_maps[f]]
        /\ UNCHANGED <<font_maps, reads>>
        /\ UNCHANGED <<scanVars, tagVars, visitVars, mapVars, loadVars>>

\* A reader queries a frozen map; query_usv takes &self and writes nothing.
LifeQuery ==
    \E r \in Readers, f \in FontIds, glyph \in LifeGlyphs :
        /\ phase[f] = "frozen"
        /\ reads' = [reads EXCEPT ![r] =
                        [op |-> "query_usv", font |-> f, glyph |-> glyph,
                         ret |-> ReverseGlyphMap_query_usv(font_maps[f], glyph)]]
        /\ UNCHANGED <<font_maps, phase, frozen_maps>>
        /\ UNCHANGED <<scanVars, tagVars, visitVars, mapVars, loadVars>>

InitLife ==
    /\ font_maps = [f \in FontIds |-> ReverseGlyphMap_new]
    /\ phase = [f \in FontIds |-> "loading"]
    /\ frozen_maps = [f \in FontIds |-> ReverseGlyphMap_new]
    /\ reads = [r \in Readers |-> [op |-> "none"]]
    /\ ScanIdle
    /\ TagIdle
    /\ VisitIdle
    /\ MapIdle
    /\ LoadIdle

NextLife ==
    \/ LifeLoadGsub
    \/ LifeLoadMathVariants
    \/ LifeFreeze
    \/ LifeQuery

SpecLife == InitLife /\ [][NextLife]_vars

\* One step of a font's life, as C8 has it.
C8_Step ==
    /\ \A f \in FontIds :
           phase[f] = "frozen" =>
               /\ phase'[f] = "frozen"
               /\ font_maps'[f] = font_maps[f]
    /\ \A f \in FontIds, h \in FontIds :
           (f # h /\ font_maps'[f] # font_maps[f])
               => font_maps'[h] = font_maps[h]
    /\ \A r \in Readers :
           reads'[r] # reads[r] =>
               /\ phase[reads'[r].font] = "frozen"
               /\ reads'[r].ret =
                      ReverseGlyphMap_query_usv(frozen_maps[reads'[r].font],
                                                reads'[r].glyph)
               /\ font_maps' = font_maps

\* C8: a map is queried only after its load phase has ended, a frozen map is
\* never written again, every query returns the value the map held when its
\* load phase ended, under any interleaving of the readers, and loading one
\* font's map leaves every other font's map as it was.
C8_FrozenMapsAreReadOnly == [][C8_Step]_vars

\* C8 witness: both readers have read font 1's frozen map, one of them an
\* entry and the other an absent glyph, while font 2 is still loading and
\* its map already differs from font 1's.
C8_Witness ==
    /\ phase[1] = "frozen"
    /\ phase[2] = "loading"
    /\ font_maps[2] # ReverseGlyphMap_new
    /\ font_maps[2] # font_maps[1]
    /\ reads["r1"].op = "query_usv"
    /\ reads["r1"].font = 1
    /\ reads["r1"].ret = Some(<<"a", Ssty>>)
    /\ reads["r2"].op = "query_usv"
    /\ reads["r2"].font = 1
    /\ reads["r2"].ret = None

====
